---- MODULE Spec2Model ----
(***************************************************************************)
(* Model of the CVPR paper downloader (download_cvpr_papers.py) and of the *)
(* companion checker (check_pdfs.py).                                      *)
(*                                                                         *)
(* The persistent state is the output directory (one slot per file name a  *)
(* title can be sanitized to) and the ledger file failed.json.  A run of   *)
(* main() is a sequence of steps over its local variables.  The remote     *)
(* side answers every GET with one response drawn from the responses the   *)
(* URL can give (Spec), or with the response a fixed web gives (SpecStable)*)
(*                                                                         *)
(* Text is a sequence of one-character strings.  A dict is the sequence of *)
(* its <<key, value>> items in insertion order, keys unique.               *)
(*                                                                         *)
(* The index lists each title once (spec, data model: the title is the     *)
(* unique key across the run).                                             *)
(***************************************************************************)
EXTENDS Integers, Sequences, FiniteSets, TLC

\* ------------------------------------------------------------------ bounds
\* longest index page (number of listed papers)
MaxIndexLen == 2
\* largest value given to --max-retries
MaxRetriesArg == 2
\* largest number of anchors of a detail page given to find_pdf_url
MaxAnchors == 2
\* longest free part at the start and at the end of a title given to fix_name
MaxLead == 1
MaxTail == 4

\* --------------------------------------------------------------- constants
\* grab_file: st_size < 1024; main and check_pdfs: st_size > 1024
MinSize == 1024
\* fix_name: txt[:200]
NameCap == 200

\* ------------------------------------------------------------------- text
Illegal == {"<", ">", ":", "\"", "/", "\\", "|", "?", "*"}
Whitespace == {" ", "\t", "\n"}

Min(a, b) == IF a < b THEN a ELSE b

\* s[:n]
Prefix(s, n) == SubSeq(s, 1, Min(n, Len(s)))

\* re.sub(r'[<>:"/\\|?*]', '', txt)
RemoveIllegal(txt) == SelectSeq(txt, LAMBDA c : c \notin Illegal)

\* re.sub(r'\s+', ' ', txt): every maximal whitespace run becomes one space
\* (a whitespace character that follows another is dropped, the one left of
\* the run becomes the space)
CollapseWs(txt) ==
    LET at == [k \in DOMAIN txt |-> <<txt[k], k>>]
        follows(k) == k > 1 /\ txt[k - 1] \in Whitespace
        kept == SelectSeq(at, LAMBDA p : ~(p[1] \in Whitespace /\ follows(p[2])))
    IN [k \in DOMAIN kept |->
           IF kept[k][1] \in Whitespace THEN " " ELSE kept[k][1]]

\* str.strip()
RECURSIVE LStrip(_)
LStrip(txt) ==
    IF txt # <<>> /\ Head(txt) \in Whitespace THEN LStrip(Tail(txt)) ELSE txt

RECURSIVE RStrip(_)
RStrip(txt) ==
    IF txt # <<>> /\ txt[Len(txt)] \in Whitespace
    THEN RStrip(SubSeq(txt, 1, Len(txt) - 1))
    ELSE txt

Strip(txt) == RStrip(LStrip(txt))

\* fix_name changed: the whitespace is collapsed before the illegal
\* characters are removed (lines 8 and 9 swapped)
fix_nameCollapsesFirst(txt) ==
    Prefix(Strip(RemoveIllegal(CollapseWs(txt))), NameCap)

fix_name(txt) == Prefix(Strip(CollapseWs(RemoveIllegal(txt))), NameCap)

\* outdir / (fix_name(title) + ".pdf")
FName(title) == fix_name(title) \o <<".", "p", "d", "f">>

\* ----------------------------------------------------------------- titles
\* T1 and T2 are different titles with the same sanitized name "a b".
T1 == <<"a", " ", "b">>
T2 == <<"a", " ", "?", " ", "b">>
T3 == <<"c">>
Titles == {T1, T2, T3}
Names == {FName(t) : t \in Titles}

\* urljoin(base, href) of the title link; urljoin(paper_url, href) of the PDF link
PageUrl(t) == <<"page", t>>
DocUrl(t) == <<"doc", t>>
NoUrl == <<"none", <<>>>>

\* ------------------------------------------------------------------ files
PdfMagic == <<"%", "P", "D", "F">>
HtmlHead == <<"<", "h", "t", "m">>

NoFile == [exists |-> FALSE, hdr |-> <<>>, size |-> 0]
MkFile(h, n) == [exists |-> TRUE, hdr |-> Prefix(h, n), size |-> n]

\* is_pdf: header = f.read(4) = b'%PDF'; any exception (no such file) is False
is_pdf(f) == f.exists /\ f.hdr = PdfMagic

\* grab_file, lines 71-82: what a completely written download must pass
GrabAccepts(f) == is_pdf(f) /\ ~(f.size < MinSize)

\* main, line 158: fname.exists() and st_size > 1024 and is_pdf(fname)
SkipAccepts(f) == f.exists /\ f.size > MinSize /\ is_pdf(f)

\* check_pdfs.main, line 31: is_pdf(pdf_file) and st_size > 1024
CheckAccepts(f) == is_pdf(f) /\ f.size > MinSize

\* ------------------------------------------------------------------ dicts
EmptyDict == <<>>
Keys(d) == {d[k][1] : k \in DOMAIN d}
Has(d, t) == t \in Keys(d)
Get(d, t) == d[CHOOSE k \in DOMAIN d : d[k][1] = t][2]
\* d.pop(t, None)
Pop(d, t) == SelectSeq(d, LAMBDA p : p[1] # t)
\* d[t] = u
Put(d, t, u) ==
    IF Has(d, t)
    THEN [k \in DOMAIN d |-> IF d[k][1] = t THEN <<t, u>> ELSE d[k]]
    ELSE Append(d, <<t, u>>)
\* d.update(e)
RECURSIVE Update(_, _)
Update(d, e) ==
    IF e = <<>> THEN d ELSE Update(Put(d, Head(e)[1], Head(e)[2]), Tail(e))

\* ----------------------------------------------------------- ledger file
NoLog == [exists |-> FALSE, data |-> EmptyDict]
\* load_log: the stored dict, {} when the file is absent
load_log(logf) == IF logf.exists THEN logf.data ELSE EmptyDict
\* save_log: json.dump of the dict
save_log(data) == [exists |-> TRUE, data |-> data]

\* ------------------------------------------------------------- responses
\* Sizes a served body can have: around the threshold.
Sizes == {MinSize - 1, MinSize, MinSize + 1}

RECURSIVE Distinct(_)
Distinct(s) ==
    \/ s = <<>>
    \/ /\ \A k \in 2..Len(s) : s[k] # s[1]
       /\ Distinct(Tail(s))

Listings ==
    {s \in UNION {[1..n -> Titles] : n \in 0..MaxIndexLen} : Distinct(s)}

\* GET of the index: an error (timeout, non-2xx) or a page listing titles
IndexErr == [ok |-> FALSE, titles |-> <<>>]
IndexResponses == {IndexErr} \cup {[ok |-> TRUE, titles |-> s] : s \in Listings}

\* GET of a detail page: an error, a page without a PDF anchor, a page with one
PageResponses == {"err", "nolink", "link"}

\* Streaming GET: an error before any byte, a body cut off by an error after
\* `written` bytes, or a complete body.
DocErr == [status |-> "err", hdr |-> <<>>, size |-> 0, written |-> 0]
Body(h, n) == [status |-> "ok", hdr |-> h, size |-> n, written |-> n]
CutBody(h, n, w) == [status |-> "cut", hdr |-> h, size |-> n, written |-> w]
CutSizes(n) == {0} \cup {w \in Sizes : w < n}
BodiesOf(heads) ==
    {Body(h, n) : h \in heads, n \in Sizes}
    \cup UNION {{CutBody(h, n, w) : w \in CutSizes(n)} : h \in heads, n \in Sizes}

\* A document URL serves a PDF or something else (an HTML error page); a
\* detail-page URL serves HTML.
DocResponses(url) ==
    {DocErr} \cup (IF url[1] = "doc" THEN BodiesOf({PdfMagic, HtmlHead})
                                     ELSE BodiesOf({HtmlHead}))

StableDocs ==
    {DocErr, CutBody(PdfMagic, MinSize + 1, MinSize - 1)}
    \cup {Body(h, n) : h \in {PdfMagic, HtmlHead}, n \in Sizes}

\* A fixed web: the answer of every URL, for runs against an unchanged remote.
\* Only listed titles with a PDF link have a document.
NoWeb == [fixed |-> FALSE, index |-> IndexErr,
          page |-> [t \in Titles |-> "err"], doc |-> [t \in Titles |-> DocErr]]
Listed(w) == {w.index.titles[k] : k \in DOMAIN w.index.titles}
FixedWebs ==
    {w \in [fixed : {TRUE}, index : IndexResponses,
            page : [Titles -> PageResponses],
            doc : [Titles -> StableDocs]] :
        \A t \in Titles :
            /\ t \notin Listed(w) => w.page[t] = "err"
            /\ w.page[t] # "link" => w.doc[t] = DocErr}

\* ------------------------------------------------------------------ state
VARIABLES
    outdir,      \* the directory cvpr_2024_papers exists
    disk,        \* file name -> file, the *.pdf files of the directory
    flog,        \* the ledger file failed.json
    pc,          \* where main() is: idle, index, loop, grab, done, aborted;
                 \* killed when the process was terminated
    args,        \* the parsed command line
    failed,      \* main: the dict loaded from the ledger
    new_failed,  \* main: the failures of this run
    todo,        \* main: the (title, url) items of this run
    i,           \* main: position in todo
    done,        \* main: success counter
    bad,         \* main: failure counter
    pdf_url,     \* main: the URL the downloads of the current item use
    attempt,     \* main: attempt index of the download loop
    web,         \* the remote side, when it is fixed
    gets,        \* history: the GETs of this run; n counts the streaming GETs
                 \* of the item in hand
    disk0,       \* history: disk when this run started
    flog0,       \* history: ledger file when this run started
    skipped,     \* history: title -> the file that made this run skip it
    downloaded,  \* history: titles this run downloaded
    known,       \* history: titles ever listed by the index or held in the ledger
    last,        \* history: title -> how its most recent attempt ended
    prev,        \* history: the previous run against the fixed web
    probe,       \* validator check: the file under test
    verdict,     \* validator check: what each place of the code said of it
    cpc,         \* check_pdfs.main: start, prompt (waiting at input()), end
    valid_count, \* check_pdfs.main: number of files found valid
    invalid_files, \* check_pdfs.main: the files found invalid
    response,    \* check_pdfs.main: the answer typed at the prompt
    given,       \* fix_name: the argument txt
    name,        \* fix_name: the value returned
    soup,        \* find_pdf_url: the detail page as parsed, or the error
    link,        \* find_pdf_url: the value returned
    hurt         \* history: what an interruption of a run left behind

vars == <<outdir, disk, flog, pc, args, failed, new_failed, todo, i, done, bad,
          pdf_url, attempt, web, gets, disk0, flog0, skipped, downloaded,
          known, last, prev, probe, verdict, cpc, valid_count, invalid_files,
          response, given, name, soup, link, hurt>>

locals == <<args, failed, new_failed, todo, i, done, bad, pdf_url, attempt>>

\* the locals of check_pdfs.main
checker == <<cpc, valid_count, invalid_files, response>>

\* the argument and the value of the functions checked by themselves
pure == <<given, name, soup, link>>

NoGets == [index |-> "none", page |-> {}, doc |-> {}, n |-> 0]
NoPrev == [kind |-> "none", max_retries |-> 0, downloaded |-> {}]
NoVerdict == [grab |-> "none", skip |-> "none", check |-> "none"]
NoResponse == <<"unset">>
NoName == <<"unset">>
NoSoup == [ok |-> FALSE, anchors |-> <<>>]
\* find_pdf_url not called yet; the value None; the value urljoin(.., href)
Unasked == [found |-> FALSE, href |-> <<"unset">>]
NoLink == [found |-> FALSE, href |-> <<>>]
Found(href) == [found |-> TRUE, href |-> href]
NoHurt == [killed |-> FALSE, title |-> <<>>, partial |-> FALSE,
           file |-> NoFile, validated |-> {}]

InitCommon ==
    /\ outdir = FALSE
    /\ disk = [n \in Names |-> NoFile]
    /\ flog = NoLog
    /\ pc = "idle"
    /\ args = [retry_failed |-> FALSE, max_retries |-> 0]
    /\ failed = EmptyDict
    /\ new_failed = EmptyDict
    /\ todo = <<>>
    /\ i = 1
    /\ done = 0
    /\ bad = 0
    /\ pdf_url = NoUrl
    /\ attempt = 0
    /\ gets = NoGets
    /\ disk0 = disk
    /\ flog0 = flog
    /\ skipped = [t \in Titles |-> NoFile]
    /\ downloaded = {}
    /\ known = {}
    /\ last = [t \in Titles |-> "none"]
    /\ prev = NoPrev
    /\ verdict = NoVerdict
    /\ cpc = "start"
    /\ valid_count = 0
    /\ invalid_files = {}
    /\ response = NoResponse
    /\ name = NoName
    /\ link = Unasked
    /\ hurt = NoHurt

\* The remote side may answer each request differently.
\* no call of fix_name or find_pdf_url by itself
NoCall == given = <<>> /\ soup = NoSoup

Init == InitCommon /\ NoCall /\ web = NoWeb /\ probe = NoFile

\* The remote side is fixed for the whole behaviour.
InitStable == InitCommon /\ NoCall /\ web \in FixedWebs /\ probe = NoFile

\* What the remote side can answer.
IndexAnswers == IF web.fixed THEN {web.index} ELSE IndexResponses
PageAnswers(url) ==
    IF web.fixed
    THEN {IF url[1] = "page" THEN web.page[url[2]] ELSE "nolink"}
    ELSE PageResponses
DocAnswers(url) ==
    IF web.fixed
    THEN {IF url[1] = "doc" THEN web.doc[url[2]]
          ELSE IF web.page[url[2]] = "err" THEN DocErr
          ELSE Body(HtmlHead, MinSize + 1)}
    ELSE DocResponses(url)

\* ---------------------------------------------------------------- main()
title == todo[i][1]
paper_page_url == todo[i][2]
fname == FName(title)

\* the run that has just ended, if any
RunSummary ==
    [kind |-> IF pc = "idle" THEN "none"
              ELSE IF pc = "aborted" THEN "aborted"
              ELSE IF args.retry_failed THEN "retry" ELSE "full",
     max_retries |-> args.max_retries,
     downloaded |-> downloaded]

\* StartRun changed: retry mode reads the index too (the else-branch always)
StartRunReadsIndex(r, m) ==
    /\ pc \in {"idle", "done", "aborted", "killed"}
    /\ outdir' = TRUE
    /\ args' = [retry_failed |-> r, max_retries |-> m]
    /\ failed' = load_log(flog)
    /\ todo' = <<>> /\ pc' = "index"
    /\ i' = 1 /\ done' = 0 /\ bad' = 0 /\ new_failed' = EmptyDict
    /\ pdf_url' = NoUrl /\ attempt' = 0
    /\ gets' = NoGets /\ disk0' = disk /\ flog0' = flog
    /\ skipped' = [t \in Titles |-> NoFile] /\ downloaded' = {}
    /\ known' = known \cup Keys(failed')
    /\ prev' = IF web.fixed THEN RunSummary ELSE prev
    /\ UNCHANGED <<disk, flog, web, last, probe, verdict, checker, pure, hurt>>

\* lines 100-125: parse the arguments, make the directory, load the ledger;
\* in retry mode with a non-empty ledger the items are the ledger's
StartRun(r, m) ==
    /\ pc \in {"idle", "done", "aborted", "killed"}
    /\ outdir' = TRUE
    /\ args' = [retry_failed |-> r, max_retries |-> m]
    /\ failed' = load_log(flog)
    /\ IF r /\ failed' # EmptyDict
       THEN todo' = failed' /\ pc' = "loop"
       ELSE todo' = <<>> /\ pc' = "index"
    /\ i' = 1 /\ done' = 0 /\ bad' = 0 /\ new_failed' = EmptyDict
    /\ pdf_url' = NoUrl /\ attempt' = 0
    /\ gets' = NoGets /\ disk0' = disk /\ flog0' = flog
    /\ skipped' = [t \in Titles |-> NoFile] /\ downloaded' = {}
    /\ known' = known \cup Keys(failed')
    /\ prev' = IF web.fixed THEN RunSummary ELSE prev
    /\ UNCHANGED <<disk, flog, web, last, probe, verdict, checker, pure, hurt>>

\* AbortRun changed: the failed index GET also removes the ledger file
AbortRunDropsLedger ==
    /\ pc' = "aborted"
    /\ flog' = NoLog
    /\ UNCHANGED <<outdir, disk, locals, web, disk0, flog0, skipped,
                   downloaded, known, last, prev, probe, verdict, checker, pure, hurt>>

\* lines 131-133: the index GET failed: report and return
AbortRun ==
    /\ pc' = "aborted"
    /\ UNCHANGED <<outdir, disk, flog, locals, web, disk0, flog0, skipped,
                   downloaded, known, last, prev, probe, verdict, checker, pure, hurt>>

\* lines 135-149: one item per listed title, with its detail-page URL
BuildTodo(r) ==
    /\ todo' = [k \in DOMAIN r.titles |-> <<r.titles[k], PageUrl(r.titles[k])>>]
    /\ known' = known \cup {r.titles[k] : k \in DOMAIN r.titles}
    /\ pc' = "loop"
    /\ UNCHANGED <<outdir, disk, flog, args, failed, new_failed, i, done, bad,
                   pdf_url, attempt, web, disk0, flog0, skipped,
                   downloaded, last, prev, probe, verdict, checker, pure, hurt>>

\* lines 126-149
FetchIndex(r) ==
    /\ pc = "index"
    /\ gets' = [gets EXCEPT !.index = IF r.ok THEN "ok" ELSE "err"]
    /\ IF r.ok THEN BuildTodo(r) ELSE AbortRun

\* what no step of the item loop changes
frame == <<outdir, flog, args, todo, web, disk0, flog0, known, prev, probe,
           verdict, checker, pure, hurt>>

\* find_pdf_url, lines 21-47: the PDF link of the page, None on an error or
\* when no anchor matches
find_pdf_url(paper_url, r) == IF r = "link" THEN DocUrl(paper_url[2]) ELSE NoUrl

\* lines 172-174 and 192-194: count the failure, record the URL for a retry,
\* go to the next item
ItemFailed(u) ==
    /\ bad' = bad + 1
    /\ new_failed' = Put(new_failed, title, u)
    /\ last' = [last EXCEPT ![title] = "fail"]
    /\ i' = i + 1
    /\ pc' = "loop"

\* lines 176-178: enter the download loop; range(max_retries) may be empty
BeginDownload(u) ==
    /\ pdf_url' = u
    /\ attempt' = 0
    /\ IF args.max_retries > 0
       THEN pc' = "grab" /\ UNCHANGED <<bad, new_failed, last, i>>
       ELSE ItemFailed(u)

\* Skip changed: the title stays in the ledger (no failed.pop)
SkipKeepsEntry ==
    /\ pc = "loop" /\ i <= Len(todo)
    /\ SkipAccepts(disk[fname])
    /\ skipped' = [skipped EXCEPT ![title] = disk[fname]]
    /\ last' = [last EXCEPT ![title] = "ok"]
    /\ i' = i + 1
    /\ UNCHANGED <<pc, failed, new_failed, done, bad, pdf_url, attempt, disk,
                   gets, downloaded>>
    /\ UNCHANGED frame

\* lines 158-161: a valid file is already there
Skip ==
    /\ pc = "loop" /\ i <= Len(todo)
    /\ SkipAccepts(disk[fname])
    /\ failed' = Pop(failed, title)
    /\ skipped' = [skipped EXCEPT ![title] = disk[fname]]
    /\ last' = [last EXCEPT ![title] = "ok"]
    /\ i' = i + 1
    /\ UNCHANGED <<pc, new_failed, done, bad, pdf_url, attempt, disk, gets,
                   downloaded>>
    /\ UNCHANGED frame

\* lines 164-166: retry mode and the title is in the ledger: use the stored URL
UseStored ==
    /\ pc = "loop" /\ i <= Len(todo)
    /\ ~SkipAccepts(disk[fname])
    /\ args.retry_failed /\ Has(failed, title)
    /\ gets' = [gets EXCEPT !.n = 0]
    /\ BeginDownload(Get(failed, title))
    /\ UNCHANGED <<failed, done, disk, skipped, downloaded>>
    /\ UNCHANGED frame

\* lines 167-174: visit the detail page and look for the PDF link
Resolve(r) ==
    /\ pc = "loop" /\ i <= Len(todo)
    /\ ~SkipAccepts(disk[fname])
    /\ ~(args.retry_failed /\ Has(failed, title))
    /\ gets' = [gets EXCEPT !.page = @ \cup {title}, !.n = 0]
    /\ LET u == find_pdf_url(paper_page_url, r)
       IN IF u = NoUrl
          THEN ItemFailed(paper_page_url) /\ pdf_url' = NoUrl /\ UNCHANGED attempt
          ELSE BeginDownload(u)
    /\ UNCHANGED <<failed, done, disk, skipped, downloaded>>
    /\ UNCHANGED frame

\* grab_file, lines 49-85: the file the call leaves at `path` and what it returns
grab_file(old, r) ==
    IF r.status = "err" THEN [file |-> old, result |-> FALSE]
    ELSE IF r.status = "cut"
         THEN [file |-> MkFile(r.hdr, r.written), result |-> FALSE]
         ELSE [file |-> MkFile(r.hdr, r.size),
               result |-> GrabAccepts(MkFile(r.hdr, r.size))]

\* GrabSucceeded changed: the title stays in the ledger (no failed.pop)
GrabSucceededKeepsEntry(g) ==
    /\ disk' = [disk EXCEPT ![fname] = g.file]
    /\ done' = done + 1
    /\ downloaded' = downloaded \cup {title}
    /\ last' = [last EXCEPT ![title] = "ok"]
    /\ i' = i + 1
    /\ pc' = "loop"
    /\ UNCHANGED <<failed, new_failed, bad, attempt>>

\* lines 184-187: the download succeeded
GrabSucceeded(g) ==
    /\ disk' = [disk EXCEPT ![fname] = g.file]
    /\ done' = done + 1
    /\ failed' = Pop(failed, title)
    /\ downloaded' = downloaded \cup {title}
    /\ last' = [last EXCEPT ![title] = "ok"]
    /\ i' = i + 1
    /\ pc' = "loop"
    /\ UNCHANGED <<new_failed, bad, attempt>>

\* GrabFailed changed: the failure of the last attempt is not recorded but
\* ends the run (the error propagates out of the loop)
GrabFailedAborts(g) ==
    /\ disk' = [disk EXCEPT ![fname] = NoFile]
    /\ attempt' = attempt + 1
    /\ IF attempt + 1 < args.max_retries
       THEN pc' = "grab"
       ELSE pc' = "aborted"
    /\ UNCHANGED <<new_failed, bad, last, i, failed, done, downloaded>>

\* GrabFailed changed: one pass more than max_retries (attempt <= max_retries)
GrabFailedOneMore(g) ==
    /\ disk' = [disk EXCEPT ![fname] = NoFile]
    /\ attempt' = attempt + 1
    /\ IF attempt + 1 <= args.max_retries
       THEN pc' = "grab" /\ UNCHANGED <<new_failed, bad, last, i>>
       ELSE ItemFailed(pdf_url)
    /\ UNCHANGED <<failed, done, downloaded>>

\* GrabFailed changed: what the failed download left stays (no fname.unlink)
GrabFailedKeepsFile(g) ==
    /\ disk' = [disk EXCEPT ![fname] = g.file]
    /\ attempt' = attempt + 1
    /\ IF attempt + 1 < args.max_retries
       THEN pc' = "grab" /\ UNCHANGED <<new_failed, bad, last, i>>
       ELSE ItemFailed(pdf_url)
    /\ UNCHANGED <<failed, done, downloaded>>

\* lines 188-194: remove what the failed download left; try again, or give up
\* after the last attempt
GrabFailed(g) ==
    /\ disk' = [disk EXCEPT ![fname] = NoFile]
    /\ attempt' = attempt + 1
    /\ IF attempt + 1 < args.max_retries
       THEN pc' = "grab" /\ UNCHANGED <<new_failed, bad, last, i>>
       ELSE ItemFailed(pdf_url)
    /\ UNCHANGED <<failed, done, downloaded>>

\* lines 178-194: one pass of the download loop: the call of grab_file and
\* what follows it
Attempt(r) ==
    /\ pc = "grab"
    /\ gets' = [gets EXCEPT !.doc = @ \cup {title}, !.n = @ + 1]
    /\ LET g == grab_file(disk[fname], r)
       IN IF g.result THEN GrabSucceeded(g) ELSE GrabFailed(g)
    /\ UNCHANGED <<pdf_url, skipped>>
    /\ UNCHANGED frame

\* line 198: whether the ledger is written
SaveNeeded == new_failed # EmptyDict \/ (args.retry_failed /\ failed # EmptyDict)

\* lines 198-202: write the ledger, or delete it
Finish ==
    /\ pc = "loop" /\ i > Len(todo)
    /\ IF SaveNeeded
       THEN /\ failed' = Update(failed, new_failed)
            /\ flog' = save_log(failed')
       ELSE /\ failed' = failed
            /\ flog' = NoLog
    /\ known' = known \cup Keys(flog'.data)
    /\ pc' = "done"
    /\ UNCHANGED <<outdir, disk, args, new_failed, todo, i, done, bad, pdf_url,
                   attempt, web, gets, disk0, flog0, skipped, downloaded, last,
                   prev, probe, verdict, checker, pure, hurt>>

\* The steps of a run, with the command line and the remote side's answers.
Start == \E r \in BOOLEAN, m \in 0..MaxRetriesArg : StartRun(r, m)

ReadIndex == pc = "index" /\ \E r \in IndexAnswers : FetchIndex(r)

ResolveItem ==
    /\ pc = "loop" /\ i <= Len(todo)
    /\ \E r \in PageAnswers(paper_page_url) : Resolve(r)

DownloadItem == pc = "grab" /\ \E r \in DocAnswers(pdf_url) : Attempt(r)

Next ==
    \/ Start
    \/ ReadIndex
    \/ Skip
    \/ UseStored
    \/ ResolveItem
    \/ DownloadItem
    \/ Finish

Spec == Init /\ [][Next]_vars

SpecStable == InitStable /\ [][Next]_vars

\* The steps main() takes by itself once started.  The program is one thread
\* and every GET has a timeout (lines 24, 51, 129), so a step that can be
\* taken is taken; when a run is started is up to the user.
RunStep == ReadIndex \/ Skip \/ UseStored \/ ResolveItem \/ DownloadItem \/ Finish

\* A full run in a fresh directory, and a retry run after it.
FirstRun == pc = "idle" /\ \E m \in 0..MaxRetriesArg : StartRun(FALSE, m)

RetryRun ==
    /\ pc = "done" /\ ~args.retry_failed
    /\ \E m \in 0..MaxRetriesArg : StartRun(TRUE, m)

NextLive == FirstRun \/ RetryRun \/ RunStep

SpecLive == Init /\ [][NextLive]_vars /\ WF_vars(RunStep)

\* ------------------------------------------------- the validity checks
\* Files to judge: every header over a few bytes, sizes around the threshold
\* and below the header length.
ProbeBytes == {"%", "P", "D", "F"}
ProbeSizes == {0, 3, MinSize - 1, MinSize, MinSize + 1}
ProbeFiles == {MkFile(h, n) : h \in [1..4 -> ProbeBytes], n \in ProbeSizes}

YesNo(b) == IF b THEN "yes" ELSE "no"

run_state == <<outdir, disk, flog, pc, args, failed, new_failed, todo, i, done,
               bad, pdf_url, attempt, web, gets, disk0, flog0, skipped,
               downloaded, known, last, prev>>

\* grab_file, lines 71-82, on a completely written download
JudgeGrab ==
    /\ verdict.grab = "none"
    /\ verdict' = [verdict EXCEPT !.grab = YesNo(GrabAccepts(probe))]
    /\ UNCHANGED <<run_state, probe, checker, pure, hurt>>

\* main, line 158, on a file found before the download
JudgeSkip ==
    /\ verdict.skip = "none"
    /\ verdict' = [verdict EXCEPT !.skip = YesNo(SkipAccepts(probe))]
    /\ UNCHANGED <<run_state, probe, checker, pure, hurt>>

\* check_pdfs.main, line 31, on a file of the directory
JudgeCheck ==
    /\ verdict.check = "none"
    /\ verdict' = [verdict EXCEPT !.check = YesNo(CheckAccepts(probe))]
    /\ UNCHANGED <<run_state, probe, checker, pure, hurt>>

InitValid == InitCommon /\ NoCall /\ web = NoWeb /\ probe \in ProbeFiles

NextValid == JudgeGrab \/ JudgeSkip \/ JudgeCheck

SpecValid == InitValid /\ [][NextValid]_vars

\* ---------------------------------------------------------- check_pdfs.py
\* Files the directory may hold when the check utility runs: none, complete
\* or cut documents, other content, of sizes around the threshold and below
\* the header length.
CheckFiles ==
    {NoFile} \cup {MkFile(h, n) : h \in {PdfMagic, HtmlHead}, n \in ProbeSizes}

\* What the user may type at the prompt.
Answers == {<<"y">>, <<"Y">>, <<"n">>, <<"N">>, <<>>, <<"y", "e", "s">>}

\* str.lower(), over the letters an answer is made of
LowerChar(c) ==
    IF c = "Y" THEN "y" ELSE IF c = "N" THEN "n"
    ELSE IF c = "E" THEN "e" ELSE IF c = "S" THEN "s"
    ELSE IF c = "P" THEN "p" ELSE IF c = "D" THEN "d"
    ELSE IF c = "F" THEN "f" ELSE c
Lower(txt) == [k \in DOMAIN txt |-> LowerChar(txt[k])]

\* pdf_dir.glob("*.pdf")
pdf_files == {n \in Names : disk[n].exists}

\* what neither step of the check utility changes
downloader == <<flog, pc, locals, web, gets, disk0, flog0, skipped,
                downloaded, known, last, prev, probe, verdict, pure, hurt>>

\* check_pdfs.main, lines 18-46: no directory: return; else sort the files
\* into valid and invalid, report, and return when none is invalid
Scan ==
    /\ cpc = "start"
    /\ IF ~outdir
       THEN /\ cpc' = "end"
            /\ UNCHANGED <<valid_count, invalid_files>>
       ELSE /\ valid_count' = Cardinality({n \in pdf_files : CheckAccepts(disk[n])})
            /\ invalid_files' = {n \in pdf_files : ~CheckAccepts(disk[n])}
            /\ cpc' = IF invalid_files' # {} THEN "prompt" ELSE "end"
    /\ UNCHANGED <<outdir, disk, response>>
    /\ UNCHANGED downloader

\* ConfirmOrKeep changed: the files are deleted whatever the answer is
DeleteUnasked(answer) ==
    /\ response' = answer
    /\ disk' = [n \in Names |-> IF n \in invalid_files THEN NoFile ELSE disk[n]]
    /\ cpc' = "end"
    /\ UNCHANGED <<outdir, valid_count, invalid_files>>
    /\ UNCHANGED downloader

\* lines 48-53: delete the invalid files when the answer is y or Y
ConfirmOrKeep(answer) ==
    /\ response' = answer
    /\ IF Lower(response') = <<"y">>
       THEN disk' = [n \in Names |->
                        IF n \in invalid_files THEN NoFile ELSE disk[n]]
       ELSE disk' = disk
    /\ cpc' = "end"
    /\ UNCHANGED <<outdir, valid_count, invalid_files>>
    /\ UNCHANGED downloader

\* lines 48-53, with what the user types
Prompt == cpc = "prompt" /\ \E answer \in Answers : ConfirmOrKeep(answer)

\* The directory as some runs of the downloader, interrupted or not, and the
\* user have left it.
InitCheck ==
    /\ outdir \in BOOLEAN
    /\ disk \in [Names -> CheckFiles]
    /\ ~outdir => disk = [n \in Names |-> NoFile]
    /\ flog \in {NoLog, save_log(<<<<T3, PageUrl(T3)>>>>)}
    /\ ~outdir => flog = NoLog
    /\ pc = "idle"
    /\ args = [retry_failed |-> FALSE, max_retries |-> 0]
    /\ failed = EmptyDict
    /\ new_failed = EmptyDict
    /\ todo = <<>>
    /\ i = 1
    /\ done = 0
    /\ bad = 0
    /\ pdf_url = NoUrl
    /\ attempt = 0
    /\ gets = NoGets
    /\ disk0 = disk
    /\ flog0 = flog
    /\ skipped = [t \in Titles |-> NoFile]
    /\ downloaded = {}
    /\ known = {}
    /\ last = [t \in Titles |-> "none"]
    /\ prev = NoPrev
    /\ verdict = NoVerdict
    /\ web = NoWeb
    /\ probe = NoFile
    /\ cpc = "start"
    /\ valid_count = 0
    /\ invalid_files = {}
    /\ response = NoResponse
    /\ given = <<>>
    /\ name = NoName
    /\ soup = NoSoup
    /\ link = Unasked
    /\ hurt = NoHurt

NextCheck == Scan \/ Prompt

SpecCheck == InitCheck /\ [][NextCheck]_vars

\* ------------------------------------------------------- fix_name alone
\* Titles given to fix_name: a free part at each end, over letters, blanks,
\* tabs and illegal characters, around a filling of letters that makes the
\* title short or brings it to the cap.
TitleChars == {"a", " ", "\t", "?"}
Leads == UNION {[1..n -> TitleChars] : n \in 0..MaxLead}
Tails == UNION {[1..n -> TitleChars] : n \in 0..MaxTail}
Fillings == {0, 1} \cup ((NameCap - 3)..(NameCap + 1))
Filling(n) == [k \in 1..n |-> "x"]
GivenTitles == {a \o Filling(n) \o b : a \in Leads, b \in Tails, n \in Fillings}

everything_else == <<outdir, disk, flog, pc, locals, web, gets, disk0, flog0,
                     skipped, downloaded, known, last, prev, probe, verdict,
                     checker, hurt>>

\* the call fix_name(title), line 156
CallFixName ==
    /\ name = NoName
    /\ name' = fix_name(given)
    /\ UNCHANGED <<given, soup, link>>
    /\ UNCHANGED everything_else

InitName ==
    /\ InitCommon /\ web = NoWeb /\ probe = NoFile
    /\ soup = NoSoup
    /\ given \in GivenTitles

NextName == CallFixName

SpecName == InitName /\ [][NextName]_vars

\* --------------------------------------------------- find_pdf_url alone
\* An anchor: its href attribute (NoHref when it has none) and its text.
NoHref == <<"absent">>
DotPdf == <<".", "p", "d", "f">>
Hrefs ==
    {NoHref, <<>>,
     <<"a">> \o DotPdf,
     <<"b", ".", "P", "D", "F">>,
     <<"c">> \o DotPdf \o <<"\n">>,
     <<"d">> \o DotPdf \o <<"?">>,
     <<"e", ".", "h", "t", "m">>}
LinkTexts ==
    {<<"p", "d", "f">>, <<" ", "P", "D", "F", "\n">>,
     <<"p", "d", "f", "s">>, <<>>}
Anchors == [href : Hrefs, text : LinkTexts]
Soups ==
    {NoSoup} \cup
    {[ok |-> TRUE, anchors |-> s] :
        s \in UNION {[1..n -> Anchors] : n \in 0..MaxAnchors}}

\* re.compile(r'\.pdf$', re.IGNORECASE).search(href): $ is the end of the
\* string, or the place before a newline that ends the string
SearchDotPdf(href) ==
    LET l == Lower(href)
        e == IF l # <<>> /\ l[Len(l)] = "\n" THEN SubSeq(l, 1, Len(l) - 1)
             ELSE l
    IN Len(e) >= Len(DotPdf) /\ SubSeq(e, Len(e) - Len(DotPdf) + 1, Len(e)) = DotPdf

\* line 30: soup.find_all('a', href=re.compile(...)); no href, no match
pdf_links(s) ==
    SelectSeq(s.anchors, LAMBDA a : a.href # NoHref /\ SearchDotPdf(a.href))

\* `if href:` an absent or empty href is skipped
Truthy(href) == href # NoHref /\ href # <<>>

\* lines 38-42: the anchors whose text is 'pdf' and whose href can be returned
text_links(s) ==
    SelectSeq(s.anchors,
              LAMBDA a : Lower(Strip(a.text)) = <<"p", "d", "f">> /\ Truthy(a.href))

\* find_pdf_url changed: the anchors are tried by their text first
find_pdf_hrefTextFirst(s) ==
    IF ~s.ok THEN NoLink
    ELSE IF text_links(s) # <<>> THEN Found(text_links(s)[1].href)
    ELSE LET by_href == SelectSeq(pdf_links(s), LAMBDA a : Truthy(a.href))
         IN IF by_href # <<>> THEN Found(by_href[1].href) ELSE NoLink

\* find_pdf_url, lines 23-47, after the GET: the href it joins to paper_url
\* and returns, or None; the page is NoSoup when the GET raised
find_pdf_href(s) ==
    IF ~s.ok THEN NoLink
    ELSE LET by_href == SelectSeq(pdf_links(s), LAMBDA a : Truthy(a.href))
         IN IF by_href # <<>> THEN Found(by_href[1].href)
            ELSE IF text_links(s) # <<>> THEN Found(text_links(s)[1].href)
            ELSE NoLink

\* the call find_pdf_url(paper_page_url, s), line 169
CallFindPdfUrl ==
    /\ link = Unasked
    /\ link' = find_pdf_href(soup)
    /\ UNCHANGED <<given, name, soup>>
    /\ UNCHANGED everything_else

InitResolve ==
    /\ InitCommon /\ web = NoWeb /\ probe = NoFile
    /\ given = <<>>
    /\ soup \in Soups

NextResolve == CallFindPdfUrl

SpecResolve == InitResolve /\ [][NextResolve]_vars

\* ------------------------------------------------- a run that is killed
\* What a stream that is cut by the end of the process has written: nothing
\* yet, or the first bytes of a longer body (lines 62-65).
PartSizes == {0, MinSize + 1}
PartialFiles(url) ==
    {MkFile(h, w) : h \in (IF url[1] = "doc" THEN {PdfMagic, HtmlHead}
                                             ELSE {HtmlHead}),
                    w \in PartSizes}

\* The process is terminated from outside: between two statements, or in a
\* GET, or in the writing of grab_file; `left` is the file then found at the
\* destination.  Nothing is cleaned up and the ledger is not written.
Killed(left) ==
    /\ ~hurt.killed
    /\ pc \in {"index", "loop", "grab"}
    /\ pc' = "killed"
    /\ disk' = IF pc = "grab" THEN [disk EXCEPT ![fname] = left] ELSE disk
    /\ hurt' = [killed |-> TRUE,
                title |-> IF pc = "grab" \/ (pc = "loop" /\ i <= Len(todo))
                          THEN title ELSE <<>>,
                partial |-> pc = "grab" /\ left \in PartialFiles(pdf_url),
                file |-> IF pc = "grab" THEN left ELSE NoFile,
                validated |-> downloaded \cup {t \in Titles : skipped[t].exists}]
    /\ UNCHANGED <<outdir, flog, locals, web, gets, disk0, flog0, skipped,
                   downloaded, known, last, prev, probe, verdict, checker, pure>>

Interrupt ==
    \E left \in (IF pc = "grab" THEN {disk[fname]} \cup PartialFiles(pdf_url)
                                ELSE {NoFile}) : Killed(left)

\* the first run in the directory, and the run after the interruption
BeginRun ==
    /\ pc = "idle"
    /\ \E r \in BOOLEAN, m \in 1..MaxRetriesArg : StartRun(r, m)

NextRun ==
    /\ pc = "killed"
    /\ \E r \in BOOLEAN : StartRun(r, 1)

\* A directory with no document yet, with or without a ledger that an
\* earlier run left.
InitKill ==
    /\ flog \in {NoLog, save_log(<<<<T3, PageUrl(T3)>>>>)}
    /\ outdir = (flog # NoLog)
    /\ disk = [n \in Names |-> NoFile]
    /\ pc = "idle"
    /\ args = [retry_failed |-> FALSE, max_retries |-> 0]
    /\ failed = EmptyDict
    /\ new_failed = EmptyDict
    /\ todo = <<>>
    /\ i = 1
    /\ done = 0
    /\ bad = 0
    /\ pdf_url = NoUrl
    /\ attempt = 0
    /\ gets = NoGets
    /\ disk0 = disk
    /\ flog0 = flog
    /\ skipped = [t \in Titles |-> NoFile]
    /\ downloaded = {}
    /\ known = {}
    /\ last = [t \in Titles |-> "none"]
    /\ prev = NoPrev
    /\ verdict = NoVerdict
    /\ web = NoWeb
    /\ probe = NoFile
    /\ cpc = "start"
    /\ valid_count = 0
    /\ invalid_files = {}
    /\ response = NoResponse
    /\ given = <<>>
    /\ name = NoName
    /\ soup = NoSoup
    /\ link = Unasked
    /\ hurt = NoHurt

NextKill == BeginRun \/ NextRun \/ Interrupt \/ RunStep

SpecKill == InitKill /\ [][NextKill]_vars

\* ================================================================= claims
\* The validator of the specification (4.4): the magic bytes and a size
\* strictly above the threshold.
Validator(f) == f.exists /\ f.hdr = PdfMagic /\ f.size > MinSize

Ledger == load_log(flog)
Ledger0 == load_log(flog0)

\* C1: after a completed run every title in the persisted ledger has a local
\* file that is absent or invalid, and every known title that is not in the
\* ledger has a local file that is present and valid.
C1_LedgerInvariant ==
    pc = "done" =>
        /\ \A t \in Keys(Ledger) : ~Validator(disk[FName(t)])
        /\ \A t \in known \ Keys(Ledger) : Validator(disk[FName(t)])

\* C2: after a completed run a title is in the persisted ledger if and only
\* if its most recent attempt failed.
C2_LedgerIffLastFailed ==
    pc = "done" => \A t \in Titles : Has(Ledger, t) <=> last[t] = "fail"

\* C3: a run in retry mode that found the ledger empty or absent makes no
\* GET and leaves every file as it was.
C3_RetryNoop ==
    (pc # "idle" /\ args.retry_failed /\ Ledger0 = EmptyDict) =>
        gets = NoGets /\ disk = disk0 /\ flog = flog0

\* C4: the second of two full runs in a row, with the same command line and
\* against an unchanged remote, downloads nothing: its success counter is 0
\* and every item the first run downloaded is skipped without a document GET.
C4_SecondRunDownloadsNothing ==
    (/\ pc = "done" /\ ~args.retry_failed
     /\ prev.kind = "full" /\ prev.max_retries = args.max_retries) =>
        /\ done = 0
        /\ \A t \in prev.downloaded : skipped[t].exists /\ t \notin gets.doc

\* C5: for every file the three validity checks of the code give the same
\* answer, the validator's: magic bytes and a size above 1024.
C5_SameValidityEverywhere ==
    (verdict.grab # "none" /\ verdict.skip # "none" /\ verdict.check # "none") =>
        /\ verdict.grab = YesNo(Validator(probe))
        /\ verdict.skip = YesNo(Validator(probe))
        /\ verdict.check = YesNo(Validator(probe))

\* C6: a retry-mode run that processes a ledger entry holding a detail-page
\* URL has got the detail page and extracted the document URL before it
\* fetches a document for that item.
C6_RetryResolvesAgain ==
    (pc = "grab" /\ args.retry_failed /\ Has(Ledger0, title)
        /\ Get(Ledger0, title) = PageUrl(title)) =>
        title \in gets.page /\ pdf_url = DocUrl(title)

\* C7: at the end of a completed run the ledger file exists if and only if
\* the in-memory failure mapping is non-empty, and then holds that mapping.
C7_LedgerFileIsMapping ==
    pc = "done" =>
        LET mapping == Update(failed, new_failed)
        IN /\ flog.exists <=> mapping # EmptyDict
           /\ flog.exists => flog.data = mapping

\* C8: a full run in an empty directory over an index of two titles, each
\* with a PDF link and a PDF that downloads and validates, ends with two
\* valid files, no ledger entry, two successes and no failure.
C8_TwoTitlesEndToEnd ==
    (/\ pc = "done" /\ ~args.retry_failed /\ args.max_retries > 0
     /\ disk0 = [n \in Names |-> NoFile]
     /\ web.index.ok /\ Len(web.index.titles) = 2
     /\ \A t \in Listed(web) :
            web.page[t] = "link" /\ web.doc[t] = Body(PdfMagic, MinSize + 1)) =>
        /\ done = 2 /\ bad = 0
        /\ Ledger = EmptyDict
        /\ \A t \in Listed(web) : Validator(disk[FName(t)])
        /\ Cardinality({n \in Names : Validator(disk[n])}) = 2

\* C9: when the index GET fails the run aborts: no detail-page or document
\* GET, no document file created or removed, the ledger file as it was.
C9_IndexFailureAborts ==
    gets.index = "err" =>
        /\ pc = "aborted"
        /\ gets.page = {} /\ gets.doc = {}
        /\ disk = disk0
        /\ flog = flog0

\* a run aborted although the directory held files and a ledger
C9_Witness ==
    /\ pc = "aborted" /\ gets.index = "err"
    /\ flog0.exists
    /\ \E n \in Names : disk0[n].exists

FetchFailed == {t \in gets.doc : Has(new_failed, t)}

\* C11: after a failed fetch attempt the destination holds no file: not when
\* the next attempt starts, not when the run moves on to the next item; and
\* a file found under the name of an item whose fetch failed was written by a
\* download of this run that succeeded.
C11_FailedAttemptLeavesNoFile ==
    /\ (pc = "grab" /\ attempt > 0) => ~disk[fname].exists
    /\ (pc \in {"loop", "done"} /\ i > 1 /\ todo[i - 1][1] \in FetchFailed) =>
           ~disk[FName(todo[i - 1][1])].exists
    /\ \A t \in FetchFailed :
           disk[FName(t)].exists =>
               \E t2 \in downloaded : FName(t2) = FName(t)

\* a run ended in which the fetch of an item failed whose destination held a
\* file when the run started, and the destination is empty
C11_Witness ==
    /\ pc = "done"
    /\ \E t \in FetchFailed : disk0[FName(t)].exists /\ ~disk[FName(t)].exists

\* C12: every item that becomes Failed adds one to the failure counter, and
\* the ledger the run leaves maps its title to the most specific URL known:
\* the document URL when a fetch failed, the detail-page URL when the
\* resolution failed.
C12_FailureRecordsMostSpecificUrl ==
    /\ pc \in {"loop", "grab", "done"} => bad = Len(new_failed)
    /\ pc = "done" =>
           \A t \in Keys(new_failed) :
               /\ Has(Ledger, t)
               /\ t \in gets.doc => Get(Ledger, t) = DocUrl(t)
               /\ (t \in gets.page /\ t \notin gets.doc /\ args.max_retries > 0)
                      => Get(Ledger, t) = PageUrl(t)

\* the titles this run found valid on disk and skipped
Skipped == {t \in Titles : skipped[t].exists}

C14_AtMostMaxRetriesFetches ==
    /\ gets.n <= args.max_retries
    /\ pc = "grab" =>
           /\ title \notin downloaded
           /\ gets.n = attempt /\ attempt < args.max_retries
    /\ (pc \in {"loop", "done"} /\ i > 1) =>
           LET t == todo[i - 1][1]
           IN /\ (Has(new_failed, t) /\ pdf_url # NoUrl) =>
                     gets.n = args.max_retries /\ attempt = gets.n
              /\ t \in downloaded => gets.n = attempt + 1

\* with --max-retries 2: an item failed after two GETs, and an item was
\* downloaded by its second GET
C14_Witness ==
    /\ pc = "done" /\ args.max_retries = 2 /\ Len(todo) = 2
    /\ todo[1][1] \in FetchFailed /\ gets.n = 2 /\ attempt = 1
    /\ todo[2][1] \in downloaded

\* the titles this run has dealt with: skipped, downloaded or failed
Processed == Skipped \cup downloaded \cup Keys(new_failed)

\* C15: a run in retry mode that loaded a non-empty ledger works on exactly
\* the loaded entries, each title with its stored URL: the item list is the
\* ledger, every download uses the stored URL, the processed titles are the
\* ledger's at the end, and neither the index nor a detail page is requested.
C15_RetryWorksOnLedger ==
    (pc # "idle" /\ args.retry_failed /\ Ledger0 # EmptyDict) =>
        /\ gets.index = "none" /\ gets.page = {}
        /\ todo = Ledger0
        /\ pc = "grab" => pdf_url = Get(Ledger0, title)
        /\ Processed \subseteq Keys(Ledger0)
        /\ pc = "done" => Processed = Keys(Ledger0)

\* a retry run over a ledger of two entries ended: one downloaded, one failed
C15_Witness ==
    /\ pc = "done" /\ args.retry_failed /\ Len(Ledger0) = 2
    /\ downloaded # {} /\ new_failed # EmptyDict

\* C16: once the item list is built the run ends, whatever errors the items
\* meet; it ends normally, only a failed index GET aborts a run; and when it
\* has ended every item of the list is validated (skipped or downloaded) or
\* failed.
C16_RunAlwaysCompletes ==
    /\ (pc \in {"loop", "grab"}) ~> (pc = "done")
    /\ [](pc = "aborted" => gets.index = "err")
    /\ [](pc = "done" => \A k \in DOMAIN todo : todo[k][1] \in Processed)

\* a run ended whose first item failed at the detail page, whose second item
\* failed in the download, with nothing downloaded
C16_Witness ==
    /\ pc = "done" /\ Len(todo) = 2 /\ downloaded = {} /\ Skipped = {}
    /\ todo[1][1] \in gets.page \ gets.doc /\ Has(new_failed, todo[1][1])
    /\ todo[2][1] \in FetchFailed

\* C17: the check utility deletes no file that passes the validator, and no
\* file at all unless the answer at the prompt is yes (y or Y); the files it
\* reports invalid are the files that fail the validator, and after a
\* confirmed deletion each of them is gone and every other file, and the
\* ledger, is as it was.
C17_CheckDeletesOnlyInvalidOnYes ==
    /\ \A n \in Names : Validator(disk0[n]) => disk[n] = disk0[n]
    /\ Lower(response) # <<"y">> => disk = disk0
    /\ flog = flog0
    /\ cpc # "start" =>
           invalid_files = {n \in Names : disk0[n].exists /\ ~Validator(disk0[n])}
    /\ (cpc = "end" /\ Lower(response) = <<"y">>) =>
           \A n \in Names :
               IF n \in invalid_files THEN ~disk[n].exists
                                      ELSE disk[n] = disk0[n]

\* the utility has deleted an invalid file of 1024 bytes with the PDF magic
\* and has left a valid file alone, after the answer Y
C17_Witness ==
    /\ cpc = "end" /\ response = <<"Y">>
    /\ \E n \in Names :
           /\ disk0[n] = MkFile(PdfMagic, MinSize) /\ ~disk[n].exists
    /\ \E n \in Names : Validator(disk[n])

\* The cleaned title, said by position: of the title without its illegal
\* characters, every character that is no whitespace, and a single space for
\* every whitespace character that stands right before a character that is
\* none and after the first such character.
Cleaned(t) ==
    LET legal == SelectSeq(t, LAMBDA c : c \notin Illegal)
        solid == {k \in DOMAIN legal : legal[k] \notin Whitespace}
        first == IF solid = {} THEN 0
                 ELSE CHOOSE k \in solid : \A m \in solid : k <= m
        at == [k \in DOMAIN legal |-> <<legal[k], k>>]
        stays(p) ==
            \/ p[2] \in solid
            \/ first > 0 /\ p[2] > first /\ (p[2] + 1) \in solid
        kept == SelectSeq(at, stays)
    IN [k \in DOMAIN kept |->
           IF kept[k][1] \in Whitespace THEN " " ELSE kept[k][1]]

\* C18: the sanitized name has no illegal character, no whitespace but
\* single spaces that stand alone, no leading whitespace, and at most 200
\* characters: it is the cleaned title, or its first 200 characters when the
\* cleaned title is longer.
C18_SanitizedName ==
    name # NoName =>
        /\ \A k \in DOMAIN name : name[k] \notin Illegal
        /\ \A k \in DOMAIN name :
               name[k] \in Whitespace =>
                   /\ name[k] = " "
                   /\ k < Len(name) => name[k + 1] \notin Whitespace
        /\ name # <<>> => name[1] \notin Whitespace
        /\ Len(name) <= NameCap
        /\ name = IF Len(Cleaned(given)) > NameCap
                  THEN SubSeq(Cleaned(given), 1, NameCap)
                  ELSE Cleaned(given)

\* a title over the cap that starts with a tab and ends with a blank, an
\* illegal character, a tab and a letter was cut to 200 characters, the
\* last of them the space
C18_Witness ==
    /\ name # NoName /\ Len(name) = NameCap /\ Len(Cleaned(given)) > NameCap
    /\ given[1] = "\t"
    /\ given[Len(given) - 3] = " " /\ given[Len(given) - 2] \in Illegal
    /\ given[Len(given) - 1] = "\t" /\ given[Len(given)] = "a"
    /\ name[NameCap] = " "

\* the rules as the claim words them
EndsInPdf(href) ==
    /\ href # NoHref /\ Len(href) >= Len(DotPdf)
    /\ Lower(SubSeq(href, Len(href) - Len(DotPdf) + 1, Len(href))) = DotPdf
TextIsPdf(text) == Lower(Strip(text)) = <<"p", "d", "f">>

\* the first anchor of the page, in document order, that a rule takes
FirstOf(s, Rule(_)) ==
    s.anchors[CHOOSE k \in DOMAIN s.anchors :
                  Rule(s.anchors[k]) /\ \A m \in 1..(k - 1) : ~Rule(s.anchors[m])]
AnyOf(s, Rule(_)) == \E k \in DOMAIN s.anchors : Rule(s.anchors[k])

\* what the resolver returns when it goes by the two rules in order
ByRules(s, RuleA(_), RuleB(_)) ==
    IF ~s.ok THEN NoLink
    ELSE IF AnyOf(s, RuleA) THEN Found(FirstOf(s, RuleA).href)
    ELSE IF AnyOf(s, RuleB) THEN Found(FirstOf(s, RuleB).href)
    ELSE NoLink

\* C19 as stated: the resolver returns the first anchor whose href ends in
\* .pdf (any case); if there is none, the first anchor whose trimmed text is
\* pdf (any case); not-found if there is neither or the request failed.
C19_FirstAnchorByRuleWins ==
    link # Unasked =>
        link = ByRules(soup, LAMBDA a : EndsInPdf(a.href),
                             LAMBDA a : TextIsPdf(a.text))

\* C19 amended: the same with the two rules as the code applies them: an
\* href that ends in .pdf may have one newline behind the extension, and an
\* anchor taken by its text must have a non-empty href.
C19_FirstUsableAnchorWins ==
    link # Unasked =>
        link = ByRules(soup,
                       LAMBDA a : EndsInPdf(a.href) \/
                                  (/\ a.href # NoHref /\ a.href # <<>>
                                   /\ a.href[Len(a.href)] = "\n"
                                   /\ EndsInPdf(SubSeq(a.href, 1, Len(a.href) - 1))),
                       LAMBDA a : TextIsPdf(a.text) /\ a.href # NoHref
                                  /\ a.href # <<>>)

\* a page whose first anchor has the text pdf and an href that is no PDF
\* link, and whose second anchor has an href ending in .PDF: the second is
\* returned
C19_Witness ==
    /\ soup.ok /\ Len(soup.anchors) = 2
    /\ TextIsPdf(soup.anchors[1].text) /\ soup.anchors[1].href = <<"e", ".", "h", "t", "m">>
    /\ soup.anchors[2].href = <<"b", ".", "P", "D", "F">>
    /\ link = Found(soup.anchors[2].href)


\* the run in progress is the one that follows the interruption
AfterKill == hurt.killed /\ pc # "killed"
SameFile(t) == hurt.title # <<>> /\ FName(t) = FName(hurt.title)
\* a file of the interrupted item's name that this run took no byte of
Leftover(t) ==
    /\ hurt.partial /\ SameFile(t)
    /\ \A u \in gets.doc : ~SameFile(u)

\* C20: when a run is terminated from outside, the ledger file is as it was
\* at the start of that run; every file validated before the interruption is
\* still on disk and the next run skips it; and the next run does not take
\* the partially written file of the interrupted item for a completed
\* document but fetches the item again.
C20_InterruptedRunIsResumable ==
    /\ pc = "killed" =>
        /\ flog = flog0
        /\ \A t \in hurt.validated : disk[FName(t)].exists
    /\ AfterKill =>
        /\ \A t \in hurt.validated : t \notin gets.page \cup gets.doc
        /\ \A t \in Titles : skipped[t].exists => ~Leftover(t)

\* C20, the part that holds: the interruption itself writes no ledger.
C20_KillLeavesLedger == pc = "killed" => flog = flog0

====
